---- MODULE Spec2Model ----
(***************************************************************************)
(* Batch-lifecycle reconciliation pipeline of daily-arXiv-ai-enhanced:     *)
(* ai/process_batch.py (status polling, download, result parsing, merge,   *)
(* relevance histogram, filter, stable sort, save, cleanup).               *)
(*                                                                         *)
(* Files are modelled as option values: <<>> is "no such file", <<c>> is a *)
(* file with content c.  A Python dict is a TLA+ function whose DOMAIN is  *)
(* the dict's key set, so "key in d" is  key \in DOMAIN d.                 *)
(***************************************************************************)
EXTENDS Integers, Sequences, FiniteSets, TLC

\* ------------------------------------------------------------------------
\* Bounds of the model
\* ------------------------------------------------------------------------
MaxRecords == 3      \* longest input record file of SpecMerge
MaxRunRecords == 2   \* longest input record file of a whole run (Spec)
MaxRunLines == 1     \* longest raw result file of a whole run (Spec)
MaxPolls == 3        \* cap on the status polls of one run
MaxParseLines == 4   \* longest raw result file of SpecParse
MaxBothLines == 3    \* longest raw result file of SpecParseBoth
MaxJobs == 2         \* cap on the jobs created in a sequence of runs (SpecSeq)
MaxEntries == 2      \* longest listing page of a crawl (SpecCrawl)

\* ------------------------------------------------------------------------
\* Program constants
\* ------------------------------------------------------------------------
SleepInterval == 60  \* time.sleep(60); wait_time += 60
DebugLimit == 3      \* "if len(results) < 3" of the parser's debug output
DefaultMaxWait == 3600  \* default of --max_wait

\* ------------------------------------------------------------------------
\* Value domains
\* ------------------------------------------------------------------------
Ids == {"p1", "p2", "p3"}

\* JSON values a "relevance" key can hold.  "Other" stands for any hashable
\* value that is none of the seven bucket names (an unrecognized string, a
\* number, null); "[list]" stands for an unhashable value (a list or dict).
RelValues ==
    {"Must", "High", "Medium", "Low", "Irrelevant", "Error", "Legacy",
     "Other", "[list]"}

Hashable(v) == v # "[list]"

NonTerminal == {"validating", "in_progress", "finalizing"}
Failed == {"failed", "expired", "cancelled"}
\* "weird" stands for any status string outside the known enumeration
Statuses == NonTerminal \cup Failed \cup {"completed", "weird"}

MaxWaits == {-60, 0, 30, 60, 100, 120}

\* ------------------------------------------------------------------------
\* StructuredResult dicts
\* ------------------------------------------------------------------------
TextFields == {"tldr", "motivation", "method", "result", "conclusion"}

\* the dict literal of the merge step: five text fields, no relevance key
NoResultSentinel == [k \in TextFields |-> "No AI result"]

\* the three dict literals of the parser: five text fields + relevance Error
ParserSentinel(text) ==
    [k \in TextFields \cup {"relevance"} |->
        IF k = "relevance" THEN "Error" ELSE text]

\* the arguments a model answer decodes to: five text fields, and a
\* relevance key unless rel is "<absent>"
DecodedArgs(rel) ==
    [k \in TextFields \cup (IF rel = "<absent>" THEN {} ELSE {"relevance"}) |->
        IF k = "relevance" THEN rel ELSE "model text"]

\* ------------------------------------------------------------------------
\* Raw result lines (what the remote service puts in the output file)
\* ------------------------------------------------------------------------
\* envelope: how far the path  line -> custom_id -> response -> body ->
\* choices[0] -> message  exists.  function_call is <<>> (absent or falsy)
\* or <<call>>; tool_calls is the list of tool calls; content is the
\* message's content ("null" is JSON null).
Envelopes ==
    {"ok", "no_message", "empty_choices", "no_choices", "no_body",
     "no_response", "no_custom_id", "not_json"}

\* the arguments string of a call: kind "dict" decodes to a JSON object
\* whose relevance is .relevance ("<absent>": no such key), "badjson" does
\* not decode, "nondict" decodes to null / a number / a list, "missing" is a
\* call without an "arguments" key
Args(kind, rel) == [kind |-> kind, relevance |-> rel]

Call(name, args) == [name |-> name, arguments |-> args]

ToolCall(type, name, args) == [type |-> type, name |-> name, arguments |-> args]

Line(cid, env, fc, tcs, content) ==
    [custom_id |-> cid, envelope |-> env, function_call |-> fc,
     tool_calls |-> tcs, content |-> content]

\* results[custom_id] = v
Put(results, cid, v) ==
    [k \in DOMAIN results \cup {cid} |-> IF k = cid THEN v ELSE results[k]]

\* "if 'relevance' not in ai_result: ai_result['relevance'] = 'Error'"
InjectRelevance(ai_result) ==
    IF "relevance" \in DOMAIN ai_result
    THEN ai_result
    ELSE [k \in DOMAIN ai_result \cup {"relevance"} |->
            IF k = "relevance" THEN "Error" ELSE ai_result[k]]

\* the function_call the parser locates in a message: the function_call
\* field when truthy, else tool_calls[0] when it is a function named
\* Structure, else None (<<>>)
LocateCall(line) ==
    IF line.function_call # <<>>
    THEN line.function_call
    ELSE IF Len(line.tool_calls) > 0
            /\ line.tool_calls[1].type = "function"
            /\ line.tool_calls[1].name = "Structure"
         THEN <<Call(line.tool_calls[1].name, line.tool_calls[1].arguments)>>
         ELSE <<>>

\* the decoding of the arguments is not guarded: JSONDecodeError is neither
\* a KeyError nor an IndexError and leaves the parser
ParseLineNoDecodeGuard(results, line) ==
    LET n == Cardinality(DOMAIN results)
        put(v, e) == [results |-> Put(results, line.custom_id, v),
                      raised |-> FALSE, errors |-> e]
        raise == [results |-> results, raised |-> TRUE, errors |-> 0]
        located == LocateCall(line)
    IN  IF line.envelope \in {"not_json", "no_custom_id"} THEN raise
        ELSE IF n < DebugLimit /\ line.envelope = "no_response" THEN raise
        ELSE IF line.envelope # "ok"
             THEN put(ParserSentinel("Error accessing result"), 1)
        ELSE IF located # <<>> /\ located[1].name = "Structure"
             THEN LET args == located[1].arguments
                  IN  CASE args.kind = "dict" ->
                             put(InjectRelevance(DecodedArgs(args.relevance)), 0)
                        [] args.kind = "missing" ->
                             put(ParserSentinel("Error accessing result"), 1)
                        [] OTHER -> raise
        ELSE IF n < DebugLimit /\ line.content = "null" THEN raise
        ELSE put(ParserSentinel("No AI result"), 0)

\* One iteration of the parser's loop.  raised = TRUE: an exception left
\* parse_batch_results (json.loads(line), result["custom_id"] and the debug
\* output are outside the try; the try catches KeyError and IndexError only).
\* errors is what the iteration adds to error_count.
ParseLine(results, line) ==
    LET n == Cardinality(DOMAIN results)
        put(v, e) == [results |-> Put(results, line.custom_id, v),
                      raised |-> FALSE, errors |-> e]
        raise == [results |-> results, raised |-> TRUE, errors |-> 0]
        located == LocateCall(line)
    IN  IF line.envelope \in {"not_json", "no_custom_id"} THEN raise
        ELSE IF n < DebugLimit /\ line.envelope = "no_response" THEN raise
        ELSE IF line.envelope # "ok"
             THEN put(ParserSentinel("Error accessing result"), 1)
        ELSE IF located # <<>> /\ located[1].name = "Structure"
             THEN LET args == located[1].arguments
                  IN  CASE args.kind = "dict" ->
                             put(InjectRelevance(DecodedArgs(args.relevance)), 0)
                        [] args.kind = "badjson" ->
                             put(ParserSentinel("Error parsing result"), 1)
                        [] args.kind = "missing" ->
                             put(ParserSentinel("Error accessing result"), 1)
                        [] OTHER -> raise
        ELSE IF n < DebugLimit /\ line.content = "null" THEN raise
        ELSE put(ParserSentinel("No AI result"), 0)

\* the loop over the lines of the file: results, error_count and the number
\* of lines processed, until the end of the file or an exception
RECURSIVE ParseFrom(_, _, _)
ParseFrom(lines, i, acc) ==
    IF i > Len(lines) \/ acc.raised
    THEN acc
    ELSE LET r == ParseLine(acc.results, lines[i])
         IN  ParseFrom(lines, i + 1,
                       [results |-> r.results,
                        raised |-> r.raised,
                        errors |-> acc.errors + r.errors,
                        line_no |-> IF r.raised THEN acc.line_no ELSE i])

parse_batch_results(lines) ==
    ParseFrom(lines, 1,
              [results |-> <<>>, raised |-> FALSE, errors |-> 0, line_no |-> 0])

\* ------------------------------------------------------------------------
\* Merge, histogram, filter, sort
\* ------------------------------------------------------------------------
\* item["AI"] = v
SetAI(item, v) ==
    [k \in DOMAIN item \cup {"AI"} |-> IF k = "AI" THEN v ELSE item[k]]

\* MergeItem with the parser's sentinel (which carries relevance Error)
\* attached to a record without a result
MergeItemErrorSentinel(item, results) ==
    IF item.id \in DOMAIN results
    THEN SetAI(item, results[item.id])
    ELSE SetAI(item, ParserSentinel("No AI result"))

\* the body of the merge loop for one record
MergeItem(item, results) ==
    IF item.id \in DOMAIN results
    THEN SetAI(item, results[item.id])
    ELSE SetAI(item, NoResultSentinel)

\* Merge that skips the records without a result
MergeDropMissing(data, results) ==
    LET HasResult(item) == item.id \in DOMAIN results
        kept == SelectSeq(data, HasResult)
    IN  [i \in 1..Len(kept) |-> SetAI(kept[i], results[kept[i].id])]

\* Merge that also turns a result without a record into a record
MergeAppendsOrphans(data, results) ==
    LET merged == [i \in 1..Len(data) |-> MergeItem(data[i], results)]
        orphans == DOMAIN results \ {data[i].id : i \in 1..Len(data)}
        cid == CHOOSE c \in orphans : TRUE
    IN  IF orphans = {} THEN merged
        ELSE Append(merged, [id |-> cid, title |-> 0, AI |-> results[cid]])

Merge(data, results) == [i \in 1..Len(data) |-> MergeItem(data[i], results)]

BucketNames ==
    {"Must", "High", "Medium", "Low", "Irrelevant", "Error", "Legacy"}

ZeroCounts == [b \in BucketNames |-> 0]

\* the bucket the filter loop increments for one enriched record
\* ("relevance in relevance_counts" raises TypeError on an unhashable value;
\* the except branch then counts Error)
Bucket(item) ==
    IF "AI" \notin DOMAIN item THEN "Legacy"
    ELSE IF "relevance" \notin DOMAIN item.AI THEN "Legacy"
    ELSE IF ~Hashable(item.AI.relevance) THEN "Error"
    ELSE IF item.AI.relevance \in BucketNames THEN item.AI.relevance
    ELSE "Error"

\* Keeps that also filters out the records of relevance Error
KeepsDropsError(item) ==
    IF "AI" \notin DOMAIN item THEN TRUE
    ELSE IF "relevance" \notin DOMAIN item.AI THEN TRUE
    ELSE IF ~Hashable(item.AI.relevance) THEN TRUE
    ELSE item.AI.relevance \notin {"Low", "Irrelevant", "Error"}

\* whether the filter loop appends the record to filtered_data
Keeps(item) ==
    IF "AI" \notin DOMAIN item THEN TRUE
    ELSE IF "relevance" \notin DOMAIN item.AI THEN TRUE
    ELSE IF ~Hashable(item.AI.relevance) THEN TRUE
    ELSE item.AI.relevance \notin {"Low", "Irrelevant"}

\* FilterLoop whose except branch keeps the record without counting it
RECURSIVE FilterLoopExceptNoCount(_, _)
FilterLoopExceptNoCount(enhanced, i) ==
    IF i = 0
    THEN [counts |-> ZeroCounts, filtered |-> <<>>]
    ELSE LET prev == FilterLoopExceptNoCount(enhanced, i - 1)
             item == enhanced[i]
             excepted == /\ "AI" \in DOMAIN item
                         /\ "relevance" \in DOMAIN item.AI
                         /\ ~Hashable(item.AI.relevance)
         IN  [counts |-> IF excepted THEN prev.counts
                         ELSE [prev.counts EXCEPT ![Bucket(item)] = @ + 1],
              filtered |-> IF Keeps(item)
                           THEN Append(prev.filtered, item)
                           ELSE prev.filtered]

\* the filter written as removal from the list being iterated: the record
\* that follows a removed one is never examined and stays in the list
RECURSIVE FilterLoopSkipAfterDrop(_, _)
FilterLoopSkipAfterDrop(enhanced, i) ==
    IF i = 0
    THEN [counts |-> ZeroCounts, filtered |-> <<>>, skip |-> FALSE]
    ELSE LET prev == FilterLoopSkipAfterDrop(enhanced, i - 1)
             item == enhanced[i]
             keep == prev.skip \/ Keeps(item)
         IN  [counts |-> [prev.counts EXCEPT ![Bucket(item)] = @ + 1],
              filtered |-> IF keep
                           THEN Append(prev.filtered, item)
                           ELSE prev.filtered,
              skip |-> ~keep]

\* the filter loop: state (relevance_counts, filtered_data) after the first
\* i enriched records
RECURSIVE FilterLoop(_, _)
FilterLoop(enhanced, i) ==
    IF i = 0
    THEN [counts |-> ZeroCounts, filtered |-> <<>>]
    ELSE LET prev == FilterLoop(enhanced, i - 1)
             item == enhanced[i]
         IN  [counts |-> [prev.counts EXCEPT ![Bucket(item)] = @ + 1],
              filtered |-> IF Keeps(item)
                           THEN Append(prev.filtered, item)
                           ELSE prev.filtered]

\* relevance_order with the scores of High and Medium exchanged
relevance_order_swapped(rel) ==
    CASE rel = "Must" -> 3
      [] rel = "High" -> 1
      [] rel = "Medium" -> 2
      [] OTHER -> 0

relevance_order(rel) ==
    CASE rel = "Must" -> 3
      [] rel = "High" -> 2
      [] rel = "Medium" -> 1
      [] OTHER -> 0

\* the sort key (the bare except gives 0 for an unhashable relevance)
get_relevance_score(item) ==
    IF "AI" \in DOMAIN item /\ "relevance" \in DOMAIN item.AI
    THEN IF item.AI.relevance \in {"Error", "Irrelevant", "Low"} THEN 0
         ELSE IF ~Hashable(item.AI.relevance) THEN 0
         ELSE relevance_order(item.AI.relevance)
    ELSE 0

\* InsertDesc that places an element before the elements of equal key
RECURSIVE InsertDescUnstable(_, _)
InsertDescUnstable(sorted, item) ==
    IF sorted = <<>> THEN <<item>>
    ELSE LET n == Len(sorted)
         IN  IF get_relevance_score(sorted[n]) > get_relevance_score(item)
             THEN Append(sorted, item)
             ELSE Append(InsertDescUnstable(SubSeq(sorted, 1, n - 1), item),
                         sorted[n])

\* list.sort(key=get_relevance_score, reverse=True): a stable insertion of
\* each element after the last element whose key is not smaller
RECURSIVE InsertDesc(_, _)
InsertDesc(sorted, item) ==
    IF sorted = <<>> THEN <<item>>
    ELSE LET n == Len(sorted)
         IN  IF get_relevance_score(sorted[n]) >= get_relevance_score(item)
             THEN Append(sorted, item)
             ELSE Append(InsertDesc(SubSeq(sorted, 1, n - 1), item), sorted[n])

RECURSIVE SortDesc(_, _)
SortDesc(items, i) ==
    IF i = 0 THEN <<>> ELSE InsertDesc(SortDesc(items, i - 1), items[i])

SortByRelevance(items) == SortDesc(items, Len(items))

\* ------------------------------------------------------------------------
\* State
\* ------------------------------------------------------------------------
VARIABLES
    dataFile,            \* the input record file <data>.jsonl: a sequence of records
    batchInfoFile,       \* <data>_batch_info.json: <<>> or <<handle>>
    requestsFile,        \* <data>_batch_requests.jsonl exists
    submittedFile,       \* <data>_batch_submitted.txt exists
    resultsFile,         \* <data>_batch_results.jsonl: <<>> or <<lines>>
    targetFile,          \* <data>_AI_enhanced_<language>.jsonl: <<>> or <<records>>
    wait_for_completion, \* argument of process_batch_results
    max_wait,            \* argument of process_batch_results
    pc,                  \* position of the run inside process_batch_results
    batch_info,          \* the handle read at the start: <<>> or <<handle>>
    wait_time,           \* local wait_time
    status_info,         \* the last status snapshot
    ai_results,          \* local ai_results
    enhanced_data,       \* local enhanced_data
    relevance_counts,    \* local relevance_counts
    filtered_data,       \* local filtered_data
    ret,                 \* "none", "True", "False" or "raised"
    polls,               \* number of check_batch_status calls of the run
    sleeps,              \* number of time.sleep(60) calls of the run
    downloads,           \* number of download_batch_results calls of the run
    download_ret,        \* what download_batch_results returned: "none", "True", "False"
    line_no,             \* parse_batch_results: number of lines processed
    partial_results,     \* parse_batch_results: local results
    error_count,         \* parse_batch_results: local error_count
    no_fail,             \* main: args.no_fail
    exit_code,           \* main: the code passed to sys.exit, -1 before the exit
    spc,                 \* position of a Submit run ("idle": there is none)
    unique_data,         \* submit main: the records handed to submit_batch_job
    batch_requests,      \* submit_batch_job: local batch_requests
    batch_input_file,    \* submit_batch_job: id of the uploaded file, "" before
    batch_job,           \* submit_batch_job: id of the created job, "" before
    upload_calls,        \* number of client.files.create calls of the Submit run
    create_calls,        \* number of client.batches.create calls of the Submit run
    sret,                \* submit_batch_job: "none", the job id, or "raised"
    jobs,                \* remote service: number of batch jobs created so far
    pages,               \* spider: the listing page of every target category
    gen_pos,             \* spider: per page, where its parse generator stands
    seen_papers,         \* spider: self.seen_papers
    yielded,             \* spider: the ids of the items yielded so far, in order
    total_papers_seen,   \* spider: self.total_papers_seen
    duplicates_skipped   \* spider: self.duplicates_skipped

files == <<dataFile, batchInfoFile, requestsFile, submittedFile, resultsFile,
           targetFile>>

locals == <<batch_info, wait_time, status_info, ai_results, enhanced_data,
            relevance_counts, filtered_data>>

parserVars == <<line_no, partial_results, error_count>>

submitVars == <<spc, unique_data, batch_requests, batch_input_file, batch_job,
                upload_calls, create_calls, sret>>

mainVars == <<no_fail, exit_code>>

\* the state of a crawl
spiderVars == <<pages, gen_pos, seen_papers, yielded, total_papers_seen,
                duplicates_skipped>>

\* the state of a Process run
processVars == <<wait_for_completion, max_wait, pc, locals, ret, polls,
                 sleeps, downloads, download_ret, parserVars, mainVars>>

vars == <<files, wait_for_completion, max_wait, submitVars, jobs, spiderVars, pc, locals, ret, polls,
          sleeps, downloads, download_ret, parserVars, mainVars>>

\* no crawl takes part
NoCrawl ==
    /\ pages = <<>>
    /\ gen_pos = <<>>
    /\ seen_papers = {}
    /\ yielded = <<>>
    /\ total_papers_seen = 0
    /\ duplicates_skipped = 0

\* ------------------------------------------------------------------------
\* Inputs
\* ------------------------------------------------------------------------
\* record files: line i is the record with id ids[i] and a title of its own
RecordFile(ids) == [i \in 1..Len(ids) |-> [id |-> ids[i], title |-> i]]

SeqsUpTo(S, n) == UNION {[1..k -> S] : k \in 0..n}

\* the handle submit_batch_job writes
Handle == [batch_job_id |-> "batch_1", batch_requests_file |-> "requests"]

\* an output file left by an earlier run
StaleTarget == <<[id |-> "old", title |-> 0, AI |-> NoResultSentinel]>>

NoStatus == [status |-> "<none>", output_file_id |-> ""]

\* a well-formed answer in the legacy shape / in the tool_calls shape
FunctionCallLine(cid, rel) ==
    Line(cid, "ok", <<Call("Structure", Args("dict", rel))>>, <<>>, "null")

ToolCallsLine(cid, rel) ==
    Line(cid, "ok", <<>>,
         <<ToolCall("function", "Structure", Args("dict", rel))>>, "null")

\* an answer with plain text instead of a structured call
NoCallLine(cid) == Line(cid, "ok", <<>>, <<>>, "text")

\* raw result lines of a whole run
RunLines ==
    {FunctionCallLine("p1", "High"), FunctionCallLine("p2", "Low"),
     FunctionCallLine("p2", "[list]")}
    \cup {ToolCallsLine("p1", "Must"), ToolCallsLine("p2", "<absent>"),
          NoCallLine("p1"),
          Line("p2", "ok", <<Call("Structure", Args("badjson", "<absent>"))>>,
               <<>>, "null"),
          Line("p1", "empty_choices", <<>>, <<>>, "text"),
          Line("p2", "ok", <<Call("Structure", Args("nondict", "<absent>"))>>,
               <<>>, "null")}

\* ------------------------------------------------------------------------
\* process_batch_results, step by step
\* ------------------------------------------------------------------------
\* "return v" / an exception leaving the function
Return(v) == pc' = "done" /\ ret' = v

\* the existence of the handle is not tested: open() raises
LoadBatchInfoNoExistsCheck ==
    /\ pc = "start"
    /\ IF batchInfoFile = <<>>
       THEN /\ Return("raised")
            /\ UNCHANGED <<batch_info, wait_time>>
       ELSE /\ batch_info' = batchInfoFile
            /\ wait_time' = 0
            /\ pc' = "poll"
            /\ UNCHANGED ret
    /\ UNCHANGED <<files, wait_for_completion, max_wait, submitVars, jobs, spiderVars, download_ret,
                   parserVars, mainVars, status_info,
                   ai_results, enhanced_data, relevance_counts, filtered_data,
                   polls, sleeps, downloads>>

\* lines 216-230: load the handle, or report "not found"
LoadBatchInfo ==
    /\ pc = "start"
    /\ IF batchInfoFile = <<>>
       THEN /\ Return("False")
            /\ UNCHANGED <<batch_info, wait_time>>
       ELSE /\ batch_info' = batchInfoFile
            /\ wait_time' = 0
            /\ pc' = "poll"
            /\ UNCHANGED ret
    /\ UNCHANGED <<files, wait_for_completion, max_wait, submitVars, jobs, spiderVars, download_ret,
                   parserVars, mainVars, status_info,
                   ai_results, enhanced_data, relevance_counts, filtered_data,
                   polls, sleeps, downloads>>

\* Variants of PollStatus: proceeds is the condition under which the loop is
\* left for the download, sleepsOn the condition under which a non-terminal
\* status is answered by a sleep
PollVariant(s, ofid, proceeds, sleepsOn) ==
    /\ pc = "poll"
    /\ polls < MaxPolls
    /\ polls' = polls + 1
    /\ status_info' = [status |-> s, output_file_id |-> ofid]
    /\ IF proceeds
       THEN /\ pc' = "download"
            /\ UNCHANGED <<ret, wait_time, sleeps>>
       ELSE IF s \in NonTerminal /\ sleepsOn
       THEN /\ sleeps' = sleeps + 1
            /\ wait_time' = wait_time + SleepInterval
            /\ UNCHANGED <<pc, ret>>
       ELSE /\ Return("False")
            /\ UNCHANGED <<wait_time, sleeps>>
    /\ UNCHANGED <<files, wait_for_completion, max_wait, submitVars, jobs, spiderVars, download_ret,
                   parserVars, mainVars, batch_info,
                   ai_results, enhanced_data, relevance_counts, filtered_data,
                   downloads>>

\* an unrecognized status is taken for success
PollStatusFailOpen(s, ofid) ==
    PollVariant(s, ofid, s \in {"completed", "weird"},
                wait_for_completion /\ wait_time < max_wait)

\* the ceiling is tested against the wait time after the next sleep
PollStatusEarlyGiveUp(s, ofid) ==
    PollVariant(s, ofid, s = "completed",
                wait_for_completion /\ wait_time + SleepInterval < max_wait)

\* the ceiling is tested with <= instead of <
PollStatusWaitLeq(s, ofid) ==
    PollVariant(s, ofid, s = "completed",
                wait_for_completion /\ wait_time <= max_wait)

\* the wait flag is not consulted
PollStatusIgnoresWaitFlag(s, ofid) ==
    PollVariant(s, ofid, s = "completed", wait_time < max_wait)

\* the ceiling max_wait is not consulted: with wait requested the loop
\* sleeps as long as the status is non-terminal
PollStatusNoCeiling(s, ofid) ==
    PollVariant(s, ofid, s = "completed", wait_for_completion)

\* lines 236-277: one iteration of the polling loop, the remote service
\* answering with status s and output file id ofid
PollStatus(s, ofid) ==
    /\ pc = "poll"
    /\ polls < MaxPolls
    /\ polls' = polls + 1
    /\ status_info' = [status |-> s, output_file_id |-> ofid]
    /\ IF s = "completed"
       THEN /\ pc' = "download"
            /\ UNCHANGED <<ret, wait_time, sleeps>>
       ELSE IF s \in Failed
       THEN /\ Return("False")
            /\ UNCHANGED <<wait_time, sleeps>>
       ELSE IF s \in NonTerminal
       THEN IF wait_for_completion /\ wait_time < max_wait
            THEN /\ sleeps' = sleeps + 1
                 /\ wait_time' = wait_time + SleepInterval
                 /\ UNCHANGED <<pc, ret>>
            ELSE /\ Return("False")
                 /\ UNCHANGED <<wait_time, sleeps>>
       ELSE /\ Return("False")
            /\ UNCHANGED <<wait_time, sleeps>>
    /\ UNCHANGED <<files, wait_for_completion, max_wait, submitVars, jobs, spiderVars, download_ret,
                   parserVars, mainVars, batch_info,
                   ai_results, enhanced_data, relevance_counts, filtered_data,
                   downloads>>

Poll ==
    \E s \in Statuses :
        \E ofid \in (IF s = "completed" THEN {"", "file_out"} ELSE {""}) :
            PollStatus(s, ofid)

\* lines 39-42: client.batches.retrieve raises; nothing catches it
PollRaises ==
    /\ pc = "poll"
    /\ polls < MaxPolls
    /\ polls' = polls + 1
    /\ Return("raised")
    /\ UNCHANGED <<files, wait_for_completion, max_wait, submitVars, jobs, spiderVars, download_ret,
                   parserVars, mainVars, locals, sleeps,
                   downloads>>

\* a completed job without output is given up: its handle is deleted
NoOutputFileDropsHandle ==
    /\ pc = "download"
    /\ status_info.output_file_id = ""
    /\ batchInfoFile' = <<>>
    /\ Return("False")
    /\ UNCHANGED <<dataFile, requestsFile, submittedFile, resultsFile,
                   targetFile, wait_for_completion, max_wait, submitVars, jobs, spiderVars, download_ret,
                   parserVars, mainVars, locals, polls, sleeps, downloads>>

\* lines 280-282: a completed job without an output file id
NoOutputFile ==
    /\ pc = "download"
    /\ status_info.output_file_id = ""
    /\ Return("False")
    /\ UNCHANGED <<files, wait_for_completion, max_wait, submitVars, jobs, spiderVars, download_ret,
                   parserVars, mainVars, locals, polls,
                   sleeps, downloads>>

\* lines 284-286 with 57-67: the download succeeds and writes the raw lines
DownloadOk(lines) ==
    /\ pc = "download"
    /\ status_info.output_file_id # ""
    /\ downloads' = downloads + 1
    /\ resultsFile' = <<lines>>
    /\ download_ret' = "True"
    /\ pc' = "parse"
    /\ UNCHANGED <<dataFile, batchInfoFile, requestsFile, submittedFile,
                   targetFile, wait_for_completion, max_wait, submitVars, jobs, spiderVars, locals, ret,
                   polls, sleeps, parserVars, mainVars>>

\* download_batch_results without its except clause
DownloadFailsRaises ==
    /\ pc = "download"
    /\ status_info.output_file_id # ""
    /\ downloads' = downloads + 1
    /\ resultsFile' \in {resultsFile, <<<<>>>>}
    /\ Return("raised")
    /\ UNCHANGED <<dataFile, batchInfoFile, requestsFile, submittedFile,
                   targetFile, wait_for_completion, max_wait, submitVars, jobs, spiderVars, locals, polls,
                   sleeps, download_ret, parserVars, mainVars>>

\* the caller goes on when a raw results file exists, whatever was returned
DownloadFailsTrustsFile ==
    /\ pc = "download"
    /\ status_info.output_file_id # ""
    /\ downloads' = downloads + 1
    /\ resultsFile' \in {resultsFile, <<<<>>>>}
    /\ download_ret' = "False"
    /\ IF resultsFile' # <<>>
       THEN pc' = "parse" /\ UNCHANGED ret
       ELSE Return("False")
    /\ UNCHANGED <<dataFile, batchInfoFile, requestsFile, submittedFile,
                   targetFile, wait_for_completion, max_wait, submitVars, jobs, spiderVars, locals, polls,
                   sleeps, parserVars, mainVars>>

\* lines 284-286 with 68-70: the fetch or the write raises; the file is
\* untouched (fetch failed) or left truncated (write failed)
DownloadFails ==
    /\ pc = "download"
    /\ status_info.output_file_id # ""
    /\ downloads' = downloads + 1
    /\ resultsFile' \in {resultsFile, <<<<>>>>}
    /\ download_ret' = "False"
    /\ Return("False")
    /\ UNCHANGED <<dataFile, batchInfoFile, requestsFile, submittedFile,
                   targetFile, wait_for_completion, max_wait, submitVars, jobs, spiderVars, locals, polls,
                   sleeps, parserVars, mainVars>>

\* lines 288-290: parse the raw results
ParseResults ==
    /\ pc = "parse"
    /\ LET r == parse_batch_results(resultsFile[1])
       IN  /\ line_no' = r.line_no
           /\ partial_results' = r.results
           /\ error_count' = r.errors
           /\ IF r.raised
              THEN /\ Return("raised")
                   /\ UNCHANGED ai_results
              ELSE /\ ai_results' = r.results
                   /\ pc' = "merge"
                   /\ UNCHANGED ret
    /\ UNCHANGED <<files, wait_for_completion, max_wait, submitVars, jobs, spiderVars, download_ret,
                   mainVars, batch_info,
                   wait_time, status_info, enhanced_data, relevance_counts,
                   filtered_data, polls, sleeps, downloads>>

\* lines 292-312: load the records and attach an AI result to each
MergeResults ==
    /\ pc = "merge"
    /\ enhanced_data' = Merge(dataFile, ai_results)
    /\ pc' = "filter"
    /\ UNCHANGED <<files, wait_for_completion, max_wait, submitVars, jobs, spiderVars, download_ret,
                   parserVars, mainVars, batch_info,
                   wait_time, status_info, ai_results, relevance_counts,
                   filtered_data, ret, polls, sleeps, downloads>>

\* lines 314-368: count the relevance distribution and filter
FilterRecords ==
    /\ pc = "filter"
    /\ LET r == FilterLoop(enhanced_data, Len(enhanced_data))
       IN  /\ relevance_counts' = r.counts
           /\ filtered_data' = r.filtered
    /\ pc' = "stats"
    /\ UNCHANGED <<files, wait_for_completion, max_wait, submitVars, jobs, spiderVars, download_ret,
                   parserVars, mainVars, batch_info,
                   wait_time, status_info, ai_results, enhanced_data, ret,
                   polls, sleeps, downloads>>

\* lines 370-388: print the distribution; the exclusion rate divides by
\* total_processed without a guard
PrintStats ==
    /\ pc = "stats"
    /\ IF Len(enhanced_data) = 0
       THEN Return("raised")
       ELSE pc' = "sort" /\ UNCHANGED ret
    /\ UNCHANGED <<files, wait_for_completion, max_wait, submitVars, jobs, spiderVars, download_ret,
                   parserVars, mainVars, locals, polls,
                   sleeps, downloads>>

\* lines 390-431: sort by relevance and (re)write the output file
SortAndSave ==
    /\ pc = "sort"
    /\ filtered_data' = SortByRelevance(filtered_data)
    /\ targetFile' = <<filtered_data'>>
    /\ pc' = "cleanup"
    /\ UNCHANGED <<dataFile, batchInfoFile, requestsFile, submittedFile,
                   resultsFile, wait_for_completion, max_wait, submitVars, jobs, spiderVars, batch_info,
                   wait_time, status_info, ai_results, enhanced_data,
                   relevance_counts, ret, polls, sleeps, downloads,
                   download_ret, parserVars, mainVars>>

Artifacts == {"results", "requests", "info", "marker"}

\* CleanupWith without the existence test of line 434: os.remove raises on
\* a raw results file that is not there
CleanupWithNoExistsTest(stuck) ==
    /\ pc = "cleanup"
    /\ IF resultsFile = <<>> \/ "results" \in stuck
       THEN /\ Return("raised")
            /\ UNCHANGED <<resultsFile, requestsFile, batchInfoFile,
                           submittedFile>>
       ELSE /\ resultsFile' = <<>>
            /\ requestsFile' =
                  IF batch_info[1].batch_requests_file # "" /\ "requests" \notin stuck
                  THEN FALSE ELSE requestsFile
            /\ batchInfoFile' =
                  IF "info" \notin stuck THEN <<>> ELSE batchInfoFile
            /\ submittedFile' =
                  IF "marker" \notin stuck THEN FALSE ELSE submittedFile
            /\ Return("True")
    /\ UNCHANGED <<dataFile, targetFile, wait_for_completion, max_wait, submitVars, jobs, spiderVars,
                   locals, polls, sleeps, downloads, download_ret,
                   parserVars, mainVars>>

\* lines 433-456: delete the intermediate artifacts; os.remove fails for the
\* files in stuck.  The removal of the results file is not guarded by a try.
CleanupWith(stuck) ==
    /\ pc = "cleanup"
    /\ IF resultsFile # <<>> /\ "results" \in stuck
       THEN /\ Return("raised")
            /\ UNCHANGED <<resultsFile, requestsFile, batchInfoFile,
                           submittedFile>>
       ELSE /\ resultsFile' = <<>>
            /\ requestsFile' =
                  IF batch_info[1].batch_requests_file # "" /\ "requests" \notin stuck
                  THEN FALSE ELSE requestsFile
            /\ batchInfoFile' =
                  IF "info" \notin stuck THEN <<>> ELSE batchInfoFile
            /\ submittedFile' =
                  IF "marker" \notin stuck THEN FALSE ELSE submittedFile
            /\ Return("True")
    /\ UNCHANGED <<dataFile, targetFile, wait_for_completion, max_wait, submitVars, jobs, spiderVars,
                   locals, polls, sleeps, downloads, download_ret,
                   parserVars, mainVars>>

Cleanup == \E stuck \in SUBSET Artifacts : CleanupWith(stuck)

\* ------------------------------------------------------------------------
\* main
\* ------------------------------------------------------------------------
\* the exit statements of main reached with the value of success and the
\* suppression flag
ExitCode(success, suppress) ==
    IF success THEN 0
    ELSE IF suppress THEN 0
    ELSE 1

\* the suppression flag is not consulted
MainExitIgnoresNoFail ==
    /\ pc = "done"
    /\ pc' = "exited"
    /\ exit_code' = IF ret = "True" THEN 0 ELSE 1
    /\ UNCHANGED <<files, wait_for_completion, max_wait, submitVars, jobs, spiderVars, locals, ret, polls,
                   sleeps, downloads, download_ret, parserVars, no_fail>>

\* lines 466-475: the process ends with sys.exit(0) or sys.exit(1); an
\* exception that left process_batch_results is caught by nothing and ends
\* the interpreter with status 1
MainExit ==
    /\ pc = "done"
    /\ pc' = "exited"
    /\ exit_code' = IF ret = "raised" THEN 1
                    ELSE ExitCode(ret = "True", no_fail)
    /\ UNCHANGED <<files, wait_for_completion, max_wait, submitVars, jobs, spiderVars, locals, ret, polls,
                   sleeps, downloads, download_ret, parserVars, no_fail>>

\* ------------------------------------------------------------------------
\* The Submit stage (submit_batch.py)
\* ------------------------------------------------------------------------
\* the request built for one record (the prompt is made of the record's
\* text, which the model abstracts by its title)
Request(item) == [custom_id |-> item.id, content |-> item.title]

\* create_batch_requests that skips a record whose id was already seen
RECURSIVE create_batch_requests_dedup(_)
create_batch_requests_dedup(data) ==
    IF data = <<>> THEN <<>>
    ELSE LET n == Len(data)
             before == create_batch_requests_dedup(SubSeq(data, 1, n - 1))
         IN  IF \E j \in 1..(n - 1) : data[j].id = data[n].id
             THEN before
             ELSE Append(before, Request(data[n]))

\* lines 26-107: one request per record, in order
create_batch_requests(data) == [i \in 1..Len(data) |-> Request(data[i])]

\* lines 183-188: the loop over data with seen_ids and unique_data
RECURSIVE UniqueLoop(_, _)
UniqueLoop(data, i) ==
    IF i = 0
    THEN [seen_ids |-> {}, unique_data |-> <<>>]
    ELSE LET prev == UniqueLoop(data, i - 1)
         IN  IF data[i].id \notin prev.seen_ids
             THEN [seen_ids |-> prev.seen_ids \cup {data[i].id},
                   unique_data |-> Append(prev.unique_data, data[i])]
             ELSE prev

\* the last record of an id is kept instead of the first
DedupLastWins(data) ==
    LET IsLast(i) == \A j \in (i + 1)..Len(data) : data[j].id # data[i].id
        F[i \in 0..Len(data)] ==
            IF i = 0 THEN <<>>
            ELSE IF IsLast(i) THEN Append(F[i - 1], data[i]) ELSE F[i - 1]
    IN  F[Len(data)]

Dedup(data) == UniqueLoop(data, Len(data)).unique_data

\* the job the remote service creates for this Submit run, newer than the
\* job of Handle
NewJob == "batch_2"

\* the ids the remote service gives the jobs it creates, in order
JobIds == <<"batch_1", "batch_2", "batch_3", "batch_4", "batch_5", "batch_6">>

JobId(n) == JobIds[n]

\* lines 153-161: the handle of a job
HandleOf(job) == [batch_job_id |-> job, batch_requests_file |-> "requests"]

NewHandle == HandleOf(NewJob)

\* "raise" out of submit_batch_job and main
SubmitRaises == spc' = "done" /\ sret' = "raised"

\* main, lines 176-190: read the data file and drop the later duplicates
ReadAndDedup ==
    /\ spc = "main"
    /\ unique_data' = Dedup(dataFile)
    /\ spc' = "requests"
    /\ UNCHANGED <<files, processVars, spiderVars, jobs, batch_requests, batch_input_file,
                   batch_job, upload_calls, create_calls, sret>>

\* lines 117-125: build the requests and write the request artifact
CreateRequests ==
    /\ spc = "requests"
    /\ batch_requests' = create_batch_requests(unique_data)
    /\ requestsFile' = TRUE
    /\ spc' = "upload"
    /\ UNCHANGED <<dataFile, batchInfoFile, submittedFile, resultsFile,
                   targetFile, processVars, spiderVars, jobs, unique_data, batch_input_file,
                   batch_job, upload_calls, create_calls, sret>>

\* the failed upload is ignored and the job is created all the same
UploadFailsIgnored ==
    /\ spc = "upload"
    /\ upload_calls' = upload_calls + 1
    /\ spc' = "create"
    /\ UNCHANGED <<files, processVars, spiderVars, jobs, unique_data, batch_requests,
                   batch_input_file, batch_job, create_calls, sret>>

\* lines 128-129: client.files.create raises
UploadFails ==
    /\ spc = "upload"
    /\ upload_calls' = upload_calls + 1
    /\ SubmitRaises
    /\ UNCHANGED <<files, processVars, spiderVars, jobs, unique_data, batch_requests,
                   batch_input_file, batch_job, create_calls>>

\* lines 128-133: the upload succeeds
UploadOk ==
    /\ spc = "upload"
    /\ upload_calls' = upload_calls + 1
    /\ batch_input_file' = "file_1"
    /\ spc' = "create"
    /\ UNCHANGED <<files, processVars, spiderVars, jobs, unique_data, batch_requests,
                   batch_job, create_calls, sret>>

\* lines 136-146: client.batches.create raises
CreateJobFails ==
    /\ spc = "create"
    /\ create_calls' = create_calls + 1
    /\ SubmitRaises
    /\ UNCHANGED <<files, processVars, spiderVars, jobs, unique_data, batch_requests,
                   batch_input_file, batch_job, upload_calls>>

\* lines 136-149: the remote job is created
CreateJobOk ==
    /\ spc = "create"
    /\ create_calls' = create_calls + 1
    /\ jobs' = jobs + 1
    /\ batch_job' = JobId(jobs')
    /\ spc' = "save"
    /\ UNCHANGED <<files, processVars, spiderVars, unique_data, batch_requests,
                   batch_input_file, upload_calls, sret>>

\* an existing handle file is not overwritten
SaveHandleKeepsExisting ==
    /\ spc = "save"
    /\ batchInfoFile' = IF batchInfoFile = <<>> THEN <<HandleOf(batch_job)>>
                        ELSE batchInfoFile
    /\ sret' = batch_job
    /\ spc' = "done"
    /\ UNCHANGED <<dataFile, requestsFile, submittedFile, resultsFile,
                   targetFile, processVars, spiderVars, jobs, unique_data, batch_requests,
                   batch_input_file, batch_job, upload_calls, create_calls>>

\* lines 151-168: write the handle file (open(..., "w") replaces an older
\* one) and return the job id
SaveHandle ==
    /\ spc = "save"
    /\ batchInfoFile' = <<HandleOf(batch_job)>>
    /\ sret' = batch_job
    /\ spc' = "done"
    /\ UNCHANGED <<dataFile, requestsFile, submittedFile, resultsFile,
                   targetFile, processVars, spiderVars, jobs, unique_data, batch_requests,
                   batch_input_file, batch_job, upload_calls, create_calls>>

\* the state a Submit run starts in: no Process run is under way, and the
\* handle of an older job may be there
SubmitStart ==
    /\ batchInfoFile \in {<<>>, <<Handle>>}
    /\ requestsFile = (batchInfoFile # <<>>)
    /\ submittedFile = FALSE
    /\ resultsFile = <<>>
    /\ targetFile = <<>>
    /\ wait_for_completion = FALSE
    /\ max_wait = DefaultMaxWait
    /\ pc = "start"
    /\ batch_info = <<>>
    /\ wait_time = 0
    /\ status_info = NoStatus
    /\ ai_results = <<>>
    /\ enhanced_data = <<>>
    /\ relevance_counts = ZeroCounts
    /\ filtered_data = <<>>
    /\ ret = "none"
    /\ polls = 0
    /\ sleeps = 0
    /\ downloads = 0
    /\ download_ret = "none"
    /\ line_no = 0
    /\ partial_results = <<>>
    /\ error_count = 0
    /\ no_fail = FALSE
    /\ exit_code = -1
    /\ batch_requests = <<>>
    /\ batch_input_file = ""
    /\ batch_job = ""
    /\ upload_calls = 0
    /\ create_calls = 0
    /\ sret = "none"
    /\ jobs = 1
    /\ NoCrawl

\* submit_batch_job called with any list of records, duplicates included
InitSubmitJob ==
    /\ unique_data \in {RecordFile(ids) : ids \in SeqsUpTo(Ids, MaxRecords)}
    /\ dataFile = unique_data
    /\ spc = "requests"
    /\ SubmitStart

NextSubmitJob ==
    \/ CreateRequests
    \/ UploadOk
    \/ UploadFails
    \/ CreateJobOk
    \/ CreateJobFails
    \/ SaveHandle

SpecSubmitJob == InitSubmitJob /\ [][NextSubmitJob]_vars

\* the Submit entry point on any record file
InitSubmit ==
    /\ dataFile \in {RecordFile(ids) : ids \in SeqsUpTo(Ids, MaxRecords)}
    /\ unique_data = <<>>
    /\ spc = "main"
    /\ SubmitStart

NextSubmit ==
    \/ ReadAndDedup
    \/ NextSubmitJob

SpecSubmit == InitSubmit /\ [][NextSubmit]_vars

\* ------------------------------------------------------------------------
\* Specification of a whole run of process_batch_results
\* ------------------------------------------------------------------------
\* the state at the call of process_batch_results, for every small record
\* file, with or without a handle and an older output file
InitRun ==
    /\ dataFile \in {RecordFile(ids) : ids \in SeqsUpTo({"p1", "p2"}, MaxRunRecords)}
    /\ batchInfoFile \in {<<>>, <<Handle>>}
    /\ requestsFile = (batchInfoFile # <<>>)
    /\ submittedFile = (batchInfoFile # <<>>)
    /\ resultsFile = <<>>
    /\ targetFile \in {<<>>, <<StaleTarget>>}
    /\ wait_for_completion \in BOOLEAN
    /\ max_wait \in MaxWaits
    /\ pc = "start"
    /\ batch_info = <<>>
    /\ wait_time = 0
    /\ status_info = NoStatus
    /\ ai_results = <<>>
    /\ enhanced_data = <<>>
    /\ relevance_counts = ZeroCounts
    /\ filtered_data = <<>>
    /\ ret = "none"
    /\ polls = 0
    /\ sleeps = 0
    /\ downloads = 0
    /\ download_ret = "none"
    /\ line_no = 0
    /\ partial_results = <<>>
    /\ error_count = 0
    /\ exit_code = -1

\* no Submit run takes part
NoSubmitRun ==
    /\ spc = "idle"
    /\ unique_data = <<>>
    /\ batch_requests = <<>>
    /\ batch_input_file = ""
    /\ batch_job = ""
    /\ upload_calls = 0
    /\ create_calls = 0
    /\ sret = "none"
    /\ jobs = 1
    /\ NoCrawl

Init == InitRun /\ no_fail = FALSE /\ NoSubmitRun

Next ==
    \/ LoadBatchInfo
    \/ Poll
    \/ PollRaises
    \/ NoOutputFile
    \/ \E lines \in SeqsUpTo(RunLines, MaxRunLines) : DownloadOk(lines)
    \/ DownloadFails
    \/ ParseResults
    \/ MergeResults
    \/ FilterRecords
    \/ PrintStats
    \/ SortAndSave
    \/ Cleanup

Spec == Init /\ [][Next]_vars

\* the polling loop alone, lines 216-277. The run is one sequential process:
\* the remote call returns or raises and time.sleep returns, so a step that
\* is possible is eventually taken.
NextPoll ==
    \/ LoadBatchInfo
    \/ Poll
    \/ PollRaises

SpecPoll == Init /\ [][NextPoll]_vars /\ WF_vars(NextPoll)

\* ------------------------------------------------------------------------
\* Specification of an invocation of main: the run of process_batch_results
\* followed by the exit of the process, with and without --no_fail
\* ------------------------------------------------------------------------
InitMain == InitRun /\ no_fail \in BOOLEAN /\ NoSubmitRun

NextMain ==
    \/ Next
    \/ MainExit

SpecMain == InitMain /\ [][NextMain]_vars

\* ------------------------------------------------------------------------
\* Specification of a Process run and a Submit run started on the same data
\* path while the handle of an older job is there; nothing orders their
\* steps (neither program takes a lock)
\* ------------------------------------------------------------------------
InitRace ==
    /\ InitRun
    /\ batchInfoFile = <<Handle>>
    /\ targetFile = <<>>
    /\ ~wait_for_completion
    /\ max_wait = 0
    /\ no_fail = FALSE
    /\ spc = "main"
    /\ unique_data = <<>>
    /\ batch_requests = <<>>
    /\ batch_input_file = ""
    /\ batch_job = ""
    /\ upload_calls = 0
    /\ create_calls = 0
    /\ sret = "none"
    /\ jobs = 1
    /\ NoCrawl

NextRace ==
    \/ Next
    \/ NextSubmit

SpecRace == InitRace /\ [][NextRace]_vars

\* ------------------------------------------------------------------------
\* Specification of a sequence of Submit and Process runs on one data path,
\* one at a time (the workflow runs one script after the other), starting
\* with no artifact and no job
\* ------------------------------------------------------------------------
\* no run is under way
Quiescent == pc \in {"idle", "done"} /\ spc \in {"idle", "done"}

\* a new invocation of process_batch.py: fresh locals, the files as they are
StartProcess ==
    /\ Quiescent
    /\ pc' = "start"
    /\ batch_info' = <<>>
    /\ wait_time' = 0
    /\ status_info' = NoStatus
    /\ ai_results' = <<>>
    /\ enhanced_data' = <<>>
    /\ relevance_counts' = ZeroCounts
    /\ filtered_data' = <<>>
    /\ ret' = "none"
    /\ polls' = 0
    /\ sleeps' = 0
    /\ downloads' = 0
    /\ download_ret' = "none"
    /\ line_no' = 0
    /\ partial_results' = <<>>
    /\ error_count' = 0
    /\ UNCHANGED <<files, wait_for_completion, max_wait, submitVars, jobs, spiderVars,
                   mainVars>>

\* a new invocation of submit_batch.py: fresh locals, the files as they are
StartSubmit ==
    /\ Quiescent
    /\ jobs < MaxJobs
    /\ spc' = "main"
    /\ unique_data' = <<>>
    /\ batch_requests' = <<>>
    /\ batch_input_file' = ""
    /\ batch_job' = ""
    /\ upload_calls' = 0
    /\ create_calls' = 0
    /\ sret' = "none"
    /\ UNCHANGED <<files, processVars, spiderVars, jobs>>

\* no run has taken place: no artifact, no job, no local
NothingRunYet ==
    /\ batchInfoFile = <<>>
    /\ requestsFile = FALSE
    /\ submittedFile = FALSE
    /\ resultsFile = <<>>
    /\ targetFile = <<>>
    /\ wait_for_completion = FALSE
    /\ max_wait = DefaultMaxWait
    /\ pc = "idle"
    /\ batch_info = <<>>
    /\ wait_time = 0
    /\ status_info = NoStatus
    /\ ai_results = <<>>
    /\ enhanced_data = <<>>
    /\ relevance_counts = ZeroCounts
    /\ filtered_data = <<>>
    /\ ret = "none"
    /\ polls = 0
    /\ sleeps = 0
    /\ downloads = 0
    /\ download_ret = "none"
    /\ line_no = 0
    /\ partial_results = <<>>
    /\ error_count = 0
    /\ no_fail = FALSE
    /\ exit_code = -1
    /\ spc = "idle"
    /\ unique_data = <<>>
    /\ batch_requests = <<>>
    /\ batch_input_file = ""
    /\ batch_job = ""
    /\ upload_calls = 0
    /\ create_calls = 0
    /\ sret = "none"
    /\ jobs = 0

InitSeq ==
    /\ dataFile \in {RecordFile(ids) : ids \in SeqsUpTo({"p1"}, MaxRunRecords)}
    /\ NothingRunYet
    /\ NoCrawl

NextSeq ==
    \/ StartSubmit
    \/ StartProcess
    \/ NextSubmit
    \/ Next

SpecSeq == InitSeq /\ [][NextSeq]_vars

\* ------------------------------------------------------------------------
\* Specification of the merge / filter / sort stage: the run is at line 292,
\* after a download and a parse that succeeded, for every record file of at
\* most MaxRecords records and every raw result file with at most one answer
\* per id
\* ------------------------------------------------------------------------
IdOrder == <<"p1", "p2", "p3">>

\* what the raw result file holds for an id: no line, a line without a
\* structured call, or a structured answer with some relevance
Answers == RelValues \cup {"<none>", "<nocall>"}

AnswerLines(cid, a) ==
    CASE a = "<none>" -> <<>>
      [] a = "<nocall>" -> <<NoCallLine(cid)>>
      [] OTHER -> <<FunctionCallLine(cid, a)>>

RECURSIVE ResultLines(_, _)
ResultLines(answer, i) ==
    IF i = 0 THEN <<>>
    ELSE ResultLines(answer, i - 1) \o AnswerLines(IdOrder[i], answer[IdOrder[i]])

InitMerge ==
    /\ dataFile \in {RecordFile(ids) : ids \in SeqsUpTo(Ids, MaxRecords)}
    /\ batchInfoFile = <<Handle>>
    /\ requestsFile = TRUE
    /\ submittedFile = TRUE
    /\ \E answer \in [Ids -> Answers] :
          /\ resultsFile = <<ResultLines(answer, Len(IdOrder))>>
          /\ LET r == parse_batch_results(resultsFile[1])
             IN  /\ ai_results = r.results
                 /\ line_no = r.line_no
                 /\ partial_results = r.results
                 /\ error_count = r.errors
    /\ targetFile = <<>>
    /\ wait_for_completion = FALSE
    /\ max_wait = DefaultMaxWait
    /\ pc = "merge"
    /\ batch_info = <<Handle>>
    /\ wait_time = 0
    /\ status_info = [status |-> "completed", output_file_id |-> "file_out"]
    /\ enhanced_data = <<>>
    /\ relevance_counts = ZeroCounts
    /\ filtered_data = <<>>
    /\ ret = "none"
    /\ polls = 1
    /\ sleeps = 0
    /\ downloads = 1
    /\ download_ret = "True"
    /\ no_fail = FALSE
    /\ exit_code = -1
    /\ NoSubmitRun

NextMerge ==
    \/ MergeResults
    \/ FilterRecords
    \/ PrintStats
    \/ SortAndSave

SpecMerge == InitMerge /\ [][NextMerge]_vars

\* ------------------------------------------------------------------------
\* Specification of the parser, line by line: the run is at line 288, after
\* a download that wrote a raw result file of at most MaxParseLines lines
\* ------------------------------------------------------------------------
ParseIdOrder == <<"p1", "p2", "p3", "p4", "p5", "p6">>

IdAt(i) == ParseIdOrder[((i - 1) % Len(ParseIdOrder)) + 1]

\* the lines the remote service can write for a request
ParseShapes(cid) ==
    {FunctionCallLine(cid, "High"),
     ToolCallsLine(cid, "<absent>"),
     Line(cid, "ok", <<Call("Structure", Args("badjson", "<absent>"))>>,
          <<>>, "null"),
     Line(cid, "ok", <<>>,
          <<ToolCall("function", "Structure", Args("badjson", "<absent>"))>>,
          "null"),
     NoCallLine(cid),
     Line(cid, "ok", <<>>,
          <<ToolCall("function", "Search", Args("dict", "High"))>>, "null"),
     Line(cid, "ok", <<Call("Structure", Args("missing", "<absent>"))>>,
          <<>>, "null"),
     Line(cid, "empty_choices", <<>>, <<>>, "text"),
     Line(cid, "no_response", <<>>, <<>>, "text"),
     Line(cid, "not_json", <<>>, <<>>, "text")}

\* a line that repeats the custom_id of the first request
RepeatedLines == {FunctionCallLine("p1", "Low")}

RECURSIVE RawFiles(_)
RawFiles(n) ==
    IF n = 0 THEN {<<>>}
    ELSE LET shorter == RawFiles(n - 1)
         IN  shorter \cup
             {Append(f, l) : f \in {g \in shorter : Len(g) = n - 1},
                             l \in ParseShapes(IdAt(n)) \cup RepeatedLines}

\* lines 81-200, one iteration of "for line in f"
ParseNextLine ==
    /\ pc = "parse"
    /\ line_no < Len(resultsFile[1])
    /\ LET r == ParseLine(partial_results, resultsFile[1][line_no + 1])
       IN  IF r.raised
           THEN /\ Return("raised")
                /\ UNCHANGED parserVars
           ELSE /\ line_no' = line_no + 1
                /\ partial_results' = r.results
                /\ error_count' = error_count + r.errors
                /\ UNCHANGED <<pc, ret>>
    /\ UNCHANGED <<files, wait_for_completion, max_wait, submitVars, jobs, spiderVars, download_ret,
                   mainVars, locals, polls, sleeps, downloads>>

\* lines 202-209 and 288: the end of the file; results is returned
ParseReturn ==
    /\ pc = "parse"
    /\ line_no = Len(resultsFile[1])
    /\ ai_results' = partial_results
    /\ pc' = "merge"
    /\ UNCHANGED <<files, wait_for_completion, max_wait, submitVars, jobs, spiderVars, download_ret,
                   parserVars, mainVars, batch_info, wait_time, status_info,
                   enhanced_data, relevance_counts, filtered_data, ret,
                   polls, sleeps, downloads>>

\* the run at the call of parse_batch_results (line 288), nothing parsed yet
ParseStart ==
    /\ dataFile = <<>>
    /\ batchInfoFile = <<Handle>>
    /\ requestsFile = TRUE
    /\ submittedFile = TRUE
    /\ targetFile = <<>>
    /\ wait_for_completion = FALSE
    /\ max_wait = DefaultMaxWait
    /\ pc = "parse"
    /\ batch_info = <<Handle>>
    /\ wait_time = 0
    /\ status_info = [status |-> "completed", output_file_id |-> "file_out"]
    /\ ai_results = <<>>
    /\ enhanced_data = <<>>
    /\ relevance_counts = ZeroCounts
    /\ filtered_data = <<>>
    /\ ret = "none"
    /\ polls = 1
    /\ sleeps = 0
    /\ downloads = 1
    /\ download_ret = "True"
    /\ line_no = 0
    /\ partial_results = <<>>
    /\ error_count = 0
    /\ no_fail = FALSE
    /\ exit_code = -1
    /\ NoSubmitRun

InitParse ==
    /\ resultsFile \in {<<f>> : f \in RawFiles(MaxParseLines)}
    /\ ParseStart

NextParse ==
    \/ ParseNextLine
    \/ ParseReturn

SpecParse == InitParse /\ [][NextParse]_vars

\* lines whose message carries both a function_call and a tool_calls field,
\* one of them the Structure invocation
BothShapes(cid) ==
    {Line(cid, "ok", <<Call("Search", Args("dict", "Low"))>>,
          <<ToolCall("function", "Structure", Args("dict", "High"))>>, "text"),
     Line(cid, "ok", <<Call("Structure", Args("dict", "Medium"))>>,
          <<ToolCall("function", "Search", Args("dict", "Low"))>>, "text")}

\* a Structure invocation in one shape only, or no invocation
OneShape(cid) ==
    {FunctionCallLine(cid, "Must"),
     ToolCallsLine(cid, "<absent>"),
     NoCallLine(cid)}

RECURSIVE BothFiles(_)
BothFiles(n) ==
    IF n = 0 THEN {<<>>}
    ELSE LET shorter == BothFiles(n - 1)
         IN  shorter \cup
             {Append(f, l) : f \in {g \in shorter : Len(g) = n - 1},
                             l \in BothShapes(IdAt(n)) \cup OneShape(IdAt(n))}

InitParseBoth ==
    /\ resultsFile \in {<<f>> : f \in BothFiles(MaxBothLines)}
    /\ ParseStart

SpecParseBoth == InitParseBoth /\ [][NextParse]_vars

\* ------------------------------------------------------------------------
\* Specification of the cleanup: the run is at line 433, the output file
\* is written, and any subset of the four artifacts exists (the marker is
\* written by the workflow, the others may have been removed meanwhile)
\* ------------------------------------------------------------------------
\* a handle without the batch_requests_file key
HandleNoRequests == [batch_job_id |-> "batch_1", batch_requests_file |-> ""]

InitCleanup ==
    /\ \E ids \in SeqsUpTo({"p1", "p2"}, MaxRunRecords) \ {<<>>} :
          dataFile = RecordFile(ids)
    /\ \E lines \in SeqsUpTo(RunLines, MaxRunLines) :
          LET r == parse_batch_results(lines)
              f == FilterLoop(Merge(dataFile, r.results), Len(dataFile))
          IN  /\ ~r.raised
              /\ resultsFile \in {<<>>, <<lines>>}
              /\ ai_results = r.results
              /\ line_no = r.line_no
              /\ partial_results = r.results
              /\ error_count = r.errors
              /\ enhanced_data = Merge(dataFile, r.results)
              /\ relevance_counts = f.counts
              /\ filtered_data = SortByRelevance(f.filtered)
    /\ targetFile = <<filtered_data>>
    /\ batch_info \in {<<Handle>>, <<HandleNoRequests>>}
    /\ batchInfoFile \in {<<>>, batch_info}
    /\ requestsFile \in BOOLEAN
    /\ submittedFile \in BOOLEAN
    /\ wait_for_completion = FALSE
    /\ max_wait = DefaultMaxWait
    /\ pc = "cleanup"
    /\ wait_time = 0
    /\ status_info = [status |-> "completed", output_file_id |-> "file_out"]
    /\ ret = "none"
    /\ polls = 1
    /\ sleeps = 0
    /\ downloads = 1
    /\ download_ret = "True"
    /\ no_fail = FALSE
    /\ exit_code = -1
    /\ NoSubmitRun

NextCleanup == Cleanup

SpecCleanup == InitCleanup /\ [][NextCleanup]_vars

\* ------------------------------------------------------------------------
\* Vocabulary of the claims
\* ------------------------------------------------------------------------
\* the relevance of an enriched record, "<absent>" when it has no such key
RelOf(e) ==
    IF "AI" \in DOMAIN e /\ "relevance" \in DOMAIN e.AI
    THEN e.AI.relevance
    ELSE "<absent>"

Rels(records) == [i \in 1..Len(records) |-> RelOf(records[i])]

\* the priority score as the specification states it
PriorityScore(e) ==
    CASE RelOf(e) = "Must" -> 3
      [] RelOf(e) = "High" -> 2
      [] RelOf(e) = "Medium" -> 1
      [] OTHER -> 0

Merged == pc \in {"filter", "stats", "sort", "cleanup"}
Filtered == pc \in {"stats", "sort", "cleanup"}
Saved == pc = "cleanup"

Output == targetFile[1]

InOutput(e) == \E j \in 1..Len(Output) : Output[j] = e

Missing(i) == dataFile[i].id \notin DOMAIN ai_results

CountSum ==
    relevance_counts.Must + relevance_counts.High + relevance_counts.Medium
    + relevance_counts.Low + relevance_counts.Irrelevant
    + relevance_counts.Error + relevance_counts.Legacy

\* ------------------------------------------------------------------------
\* C1 - The merge step attaches exactly one AI result to every input
\* record: the parsed one when the record's id is a key of ai_results, the
\* "No AI result" sentinel otherwise; enhanced_data has the length and the
\* order of the input file, and no record is dropped or duplicated.
\* ------------------------------------------------------------------------
C1_MergeKeepsEveryRecord ==
    Merged =>
        /\ Len(enhanced_data) = Len(dataFile)
        /\ \A i \in 1..Len(dataFile) :
              /\ DOMAIN enhanced_data[i] = DOMAIN dataFile[i] \cup {"AI"}
              /\ \A k \in DOMAIN dataFile[i] :
                    enhanced_data[i][k] = dataFile[i][k]
              /\ enhanced_data[i].AI =
                    IF Missing(i) THEN NoResultSentinel
                    ELSE ai_results[dataFile[i].id]

C1_Witness ==
    /\ Merged
    /\ Len(dataFile) = 3
    /\ \E i, j \in 1..Len(dataFile) :
          /\ Missing(i) /\ ~Missing(j)
          /\ enhanced_data[i].AI = NoResultSentinel
          /\ enhanced_data[j].AI = ai_results[dataFile[j].id]

\* ------------------------------------------------------------------------
\* C2 - A merged record is absent from the output file if and only if its
\* relevance is exactly Low or Irrelevant; every other relevance value and a
\* missing relevance key are retained (and nothing is written twice).
\* ------------------------------------------------------------------------
C2_FilterDropsLowAndIrrelevantOnly ==
    Saved =>
        /\ \A i \in 1..Len(enhanced_data) :
              InOutput(enhanced_data[i])
                 <=> RelOf(enhanced_data[i]) \notin {"Low", "Irrelevant"}
        /\ Len(Output) =
              Cardinality({i \in 1..Len(enhanced_data) :
                             RelOf(enhanced_data[i]) \notin {"Low", "Irrelevant"}})

C2_Witness ==
    /\ Saved
    /\ \E i, j, k \in 1..Len(enhanced_data) :
          /\ RelOf(enhanced_data[i]) = "Irrelevant" /\ ~InOutput(enhanced_data[i])
          /\ RelOf(enhanced_data[j]) = "Error" /\ InOutput(enhanced_data[j])
          /\ RelOf(enhanced_data[k]) = "<absent>" /\ InOutput(enhanced_data[k])

\* ------------------------------------------------------------------------
\* C3 - The records of the output file are ordered by non-increasing
\* priority score (Must 3, High 2, Medium 1, everything else 0); relevances
\* Must, Low, Medium give the output order Must, Medium.
\* ------------------------------------------------------------------------
C3_OutputSortedByPriority ==
    Saved =>
        /\ \A i, j \in 1..Len(Output) :
              i < j => PriorityScore(Output[i]) >= PriorityScore(Output[j])
        /\ Rels(enhanced_data) = <<"Must", "Low", "Medium">>
              => Rels(Output) = <<"Must", "Medium">>

C3_Witness ==
    /\ Saved
    /\ Rels(enhanced_data) = <<"Medium", "High", "Must">>
    /\ Rels(Output) = <<"Must", "High", "Medium">>

\* ------------------------------------------------------------------------
\* C4 - The sort is stable: two retained records with equal priority score
\* appear in the output in their relative order of the input file (titles
\* number the input lines).
\* ------------------------------------------------------------------------
C4_SortIsStable ==
    Saved =>
        \A i, j \in 1..Len(Output) :
            (i < j /\ PriorityScore(Output[i]) = PriorityScore(Output[j]))
               => Output[i].title < Output[j].title

C4_Witness ==
    /\ Saved
    /\ Rels(enhanced_data) = <<"Error", "<absent>", "Must">>
    /\ Rels(Output) = <<"Must", "Error", "<absent>">>

\* ------------------------------------------------------------------------
\* C5 - Once the filter loop has run, the seven bucket counts sum to the
\* number of enriched records, on the normal paths and on the exception
\* path (an unhashable relevance value) alike.
\* ------------------------------------------------------------------------
C5_HistogramSum ==
    Filtered => CountSum = Len(enhanced_data)

C5_Witness ==
    /\ Filtered
    /\ Rels(enhanced_data) = <<"[list]", "Low", "<absent>">>
    /\ relevance_counts.Error = 1
    /\ relevance_counts.Low = 1
    /\ relevance_counts.Legacy = 1

\* ------------------------------------------------------------------------
\* C6 - A record whose id is absent from the parsed results gets an AI
\* block of five "No AI result" text fields without a relevance key, is
\* counted in the Legacy bucket and not in Error, and is written to the
\* output file.
\* ------------------------------------------------------------------------
C6_MissingResultIsLegacyAndKept ==
    /\ Merged =>
          \A i \in 1..Len(dataFile) :
              Missing(i) =>
                 /\ DOMAIN enhanced_data[i].AI = TextFields
                 /\ \A k \in TextFields : enhanced_data[i].AI[k] = "No AI result"
    /\ Filtered =>
          /\ relevance_counts.Legacy =
                Cardinality({i \in 1..Len(dataFile) :
                               Missing(i) \/ RelOf(enhanced_data[i]) = "Legacy"})
          /\ relevance_counts.Error =
                Cardinality({i \in 1..Len(dataFile) :
                               /\ ~Missing(i)
                               /\ RelOf(enhanced_data[i]) \notin
                                     {"Must", "High", "Medium", "Low",
                                      "Irrelevant", "Legacy"}})
    /\ Saved =>
          \A i \in 1..Len(dataFile) : Missing(i) => InOutput(enhanced_data[i])

C6_Witness ==
    /\ Saved
    /\ Len(dataFile) = 2
    /\ Missing(2) /\ ~Missing(1)
    /\ RelOf(enhanced_data[1]) = "High"
    /\ relevance_counts.Legacy = 1
    /\ relevance_counts.Error = 0
    /\ Output = enhanced_data

\* ------------------------------------------------------------------------
\* C7 - A poll that returns failed, expired, cancelled or an unrecognized
\* status ends the run at once with the failure signal, whatever the wait
\* flag: the aborting poll neither sleeps nor touches a file, no step
\* follows the end of the run, and no download was attempted.  A download is
\* attempted only after a poll returned completed.
\* ------------------------------------------------------------------------
AbortStatus == status_info.status \in Failed \cup {"weird"}

C7_FailureStatusAborts ==
    /\ [](AbortStatus => (pc = "done" /\ ret = "False" /\ downloads = 0))
    /\ [](downloads > 0 => status_info.status = "completed")
    /\ [][(polls' # polls /\ status_info'.status \in Failed \cup {"weird"})
            => UNCHANGED <<files, sleeps, wait_time, downloads>>]_vars
    /\ [][pc # "done"]_vars

C7_Witness ==
    /\ AbortStatus
    /\ status_info.status = "weird"
    /\ wait_for_completion
    /\ sleeps = 1
    /\ polls = 2
    /\ pc = "done"
    /\ ret = "False"

\* ------------------------------------------------------------------------
\* C8 - With wait requested, the k-th consecutive non-terminal status is
\* answered by a k-th sleep of 60 whenever max_wait > 60*(k-1), and a
\* completed status after k non-terminal ones leaves the loop for the
\* download stage after exactly k sleeps and k+1 polls (runs in which a
\* status query raised are not runs of the claim).
\* ------------------------------------------------------------------------
C8_WaitsThenProceedsToDownload ==
    /\ []((wait_for_completion /\ ret # "raised") =>
            /\ (status_info.status \in NonTerminal
                /\ max_wait > SleepInterval * (polls - 1))
                  => /\ pc = "poll"
                     /\ ret = "none"
                     /\ sleeps = polls
                     /\ wait_time = SleepInterval * polls
            /\ status_info.status = "completed"
                  => /\ polls = sleeps + 1
                     /\ wait_time = SleepInterval * sleeps)
    /\ [][(wait_for_completion /\ polls' # polls
           /\ status_info'.status = "completed")
            => (pc' = "download" /\ ret' = "none" /\ UNCHANGED <<sleeps, wait_time>>)]_vars

C8_Witness ==
    /\ wait_for_completion
    /\ status_info.status = "completed"
    /\ polls = 3
    /\ sleeps = 2
    /\ wait_time = 2 * SleepInterval
    /\ downloads = 1
    /\ pc = "parse"

\* ------------------------------------------------------------------------
\* C9 (as claimed) - With wait requested, the elapsed wait accumulated by
\* the polling loop never exceeds max_wait.
\* ------------------------------------------------------------------------
C9_Original ==
    (wait_for_completion /\ max_wait >= 0) => wait_time <= max_wait

\* ------------------------------------------------------------------------
\* C9 (amended) - With wait requested, the elapsed wait is 60 per sleep
\* cycle and exceeds max_wait by less than one sleep interval: after any
\* sleep wait_time < max_wait + 60, and wait_time <= max_wait when max_wait
\* is a non-negative multiple of 60.
\* ------------------------------------------------------------------------
C9_WaitOvershootBelowOneInterval ==
    wait_for_completion =>
        /\ wait_time = SleepInterval * sleeps
        /\ sleeps > 0 => wait_time < max_wait + SleepInterval
        /\ (max_wait >= 0 /\ max_wait % SleepInterval = 0)
              => wait_time <= max_wait

C9_Witness ==
    /\ wait_for_completion
    /\ max_wait = 100
    /\ sleeps = 2
    /\ wait_time = 120

\* ------------------------------------------------------------------------
\* C10 - Without the wait flag, a first poll that returns validating,
\* in_progress or finalizing ends the run after exactly one poll and no
\* sleep, with the failure signal, no download and no file written.
\* ------------------------------------------------------------------------
C10_NotReadyWithoutWait ==
    /\ []((~wait_for_completion /\ status_info.status \in NonTerminal)
            => /\ pc = "done"
               /\ ret = "False"
               /\ polls = 1
               /\ sleeps = 0
               /\ wait_time = 0
               /\ downloads = 0)
    /\ [][(~wait_for_completion /\ polls' # polls
           /\ status_info'.status \in NonTerminal)
            => UNCHANGED files]_vars
    /\ [][pc # "done"]_vars

C10_Witness ==
    /\ ~wait_for_completion
    /\ max_wait = 120
    /\ status_info.status = "finalizing"
    /\ polls = 1
    /\ pc = "done"
    /\ ret = "False"
    /\ targetFile = <<StaleTarget>>

\* ------------------------------------------------------------------------
\* Exit codes and whole-batch failures
\* ------------------------------------------------------------------------
Exited == pc = "exited"

\* C11: main exits with 0 when process_batch_results returned success, with
\* 1 when it returned failure and no_fail is not set, with 0 when it returned
\* failure and no_fail is set; the process has an exit code exactly when it
\* has exited, and the code never changes afterwards.
C11_ExitCodeMapping ==
    /\ [](Exited <=> exit_code # -1)
    /\ [](Exited /\ ret = "True" => exit_code = 0)
    /\ [](Exited /\ ret = "False" /\ ~no_fail => exit_code = 1)
    /\ [](Exited /\ ret = "False" /\ no_fail => exit_code = 0)
    /\ [][exit_code # -1 => exit_code' = exit_code]_vars

C11_Witness == Exited /\ ret = "False" /\ no_fail /\ exit_code = 0

\* C12: a run that ends without a successful download (the status query or
\* the download failed, the remote call erroring included) has returned
\* False, and the exit code is 1, or 0 under no_fail.
C12_WholeBatchFailureReturnsFalse ==
    (pc \in {"done", "exited"} /\ download_ret # "True") =>
        /\ ret = "False"
        /\ Exited => exit_code = (IF no_fail THEN 0 ELSE 1)

\* the raw files a successful download can write
Fetched == {<<lines>> : lines \in SeqsUpTo(RunLines, MaxRunLines)}

\* C13: every call of download_batch_results returns True or False and no
\* exception leaves it; it returns True only with the fetched lines written
\* to the raw results file, and False makes the run return False.
C13_DownloadNeverRaises ==
    [][downloads' # downloads =>
          /\ download_ret' \in {"True", "False"}
          /\ ret' # "raised"
          /\ download_ret' = "True" => resultsFile' \in Fetched
          /\ download_ret' = "False" => ret' = "False"]_vars

C13_Witness ==
    downloads = 1 /\ download_ret = "False" /\ resultsFile = <<<<>>>>

\* C14: after a failed download the run has returned False, nothing was
\* parsed or merged, and the output file is never created or replaced,
\* whether or not a raw results file exists.
C14_DownloadFailureAborts ==
    /\ [](download_ret = "False" =>
            /\ pc = "done" /\ ret = "False"
            /\ line_no = 0 /\ ai_results = <<>> /\ enhanced_data = <<>>)
    /\ [][download_ret' = "False" => targetFile' = targetFile]_vars

C14_Witness ==
    /\ download_ret = "False" /\ resultsFile # <<>>
    /\ targetFile = <<StaleTarget>> /\ ret = "False"

\* C15: without a handle file the run returns False in its first step, with
\* no status query, no download and every file left as it was.
C15_MissingHandleNotReady ==
    /\ [][pc = "start" /\ batchInfoFile = <<>> =>
            /\ pc' = "done" /\ ret' = "False"
            /\ UNCHANGED <<files, polls, downloads>>]_vars
    /\ [](pc = "done" /\ batch_info = <<>> =>
            /\ ret = "False" /\ polls = 0 /\ downloads = 0
            /\ resultsFile = <<>> /\ batchInfoFile = <<>>)

C15_Witness ==
    /\ pc = "done" /\ batch_info = <<>> /\ ret = "False"
    /\ targetFile = <<StaleTarget>> /\ dataFile # <<>>

\* ------------------------------------------------------------------------
\* The parser: classes of raw lines as the specification names them
\* ------------------------------------------------------------------------
RawLines == resultsFile[1]

HasCustomId(line) == line.envelope \notin {"not_json", "no_custom_id"}

CallInFunctionCall(line) ==
    line.function_call # <<>> /\ line.function_call[1].name = "Structure"

CallInToolCalls(line) ==
    /\ line.function_call = <<>>
    /\ Len(line.tool_calls) > 0
    /\ line.tool_calls[1].type = "function"
    /\ line.tool_calls[1].name = "Structure"

\* the arguments of the line's Structure call, in either shape
StructureArgs(line) ==
    IF CallInFunctionCall(line)
    THEN line.function_call[1].arguments
    ELSE line.tool_calls[1].arguments

HasStructureCall(line) ==
    line.envelope = "ok" /\ (CallInFunctionCall(line) \/ CallInToolCalls(line))

GoodLine(line) ==
    HasStructureCall(line) /\ StructureArgs(line).kind = "dict"

BadArgsLine(line) ==
    HasStructureCall(line) /\ StructureArgs(line).kind = "badjson"

\* no function_call and no tool_calls, or a call with another name
NoStructureCallLine(line) ==
    /\ line.envelope = "ok"
    /\ ~CallInFunctionCall(line)
    /\ ~(Len(line.tool_calls) > 0 /\ line.tool_calls[1].name = "Structure")

\* a key or an index is missing on response -> body -> choices[0] ->
\* message, or inside the located call
MalformedLine(line) ==
    \/ line.envelope \in {"no_response", "no_body", "no_choices",
                          "empty_choices", "no_message"}
    \/ HasStructureCall(line) /\ StructureArgs(line).kind = "missing"

PerRecordFailure(line) ==
    BadArgsLine(line) \/ NoStructureCallLine(line) \/ MalformedLine(line)

\* the entry the specification gives a line
ExpectedEntry(line) ==
    CASE GoodLine(line) ->
            InjectRelevance(DecodedArgs(StructureArgs(line).relevance))
      [] BadArgsLine(line) -> ParserSentinel("Error parsing result")
      [] NoStructureCallLine(line) -> ParserSentinel("No AI result")
      [] MalformedLine(line) -> ParserSentinel("Error accessing result")
      [] OTHER -> <<>>

CustomIds(lines) == {lines[i].custom_id : i \in 1..Len(lines)}

\* the last line of the file with this custom_id
LastLine(lines, cid) ==
    lines[CHOOSE i \in 1..Len(lines) :
             /\ lines[i].custom_id = cid
             /\ \A j \in (i + 1)..Len(lines) : lines[j].custom_id # cid]

ParserEnded == pc # "parse"

\* the parser is about to process a line
AtLine == pc = "parse" /\ line_no < Len(RawLines)

CurrentLine == RawLines[line_no + 1]

\* the step has processed the current line and stored v for its custom_id
Stored(v) ==
    /\ line_no' = line_no + 1
    /\ CurrentLine.custom_id \in DOMAIN partial_results'
    /\ partial_results'[CurrentLine.custom_id] = v

\* what holds of every mapping the parser returns: one entry per distinct
\* custom_id, from the last line with that custom_id
ReturnedMappingIsLastWriteWins ==
    pc = "merge" =>
        /\ DOMAIN ai_results = CustomIds(RawLines)
        /\ \A cid \in CustomIds(RawLines) :
              ai_results[cid] = ExpectedEntry(LastLine(RawLines, cid))

\* C16: for every raw result file whose lines carry a custom_id, the parser
\* returns a mapping with exactly one entry per distinct custom_id of the
\* file, the entry of the last line with that custom_id.
C16_OneEntryPerCustomId ==
    (ParserEnded /\ \A i \in 1..Len(RawLines) : HasCustomId(RawLines[i])) =>
        /\ pc = "merge"
        /\ ReturnedMappingIsLastWriteWins

\* C17: in a file whose lines are answers or per-record failures (undecodable
\* arguments, no Structure call, malformed structure), the parser runs to the
\* end of the file and every custom_id gets the entry of its own last line,
\* whatever the other lines are.
C17_PerRecordFailureAbsorbed ==
    (ParserEnded /\ \A i \in 1..Len(RawLines) :
                        GoodLine(RawLines[i]) \/ PerRecordFailure(RawLines[i])) =>
        /\ ret # "raised"
        /\ line_no = Len(RawLines)
        /\ \A cid \in CustomIds(RawLines) :
              /\ cid \in DOMAIN ai_results
              /\ ai_results[cid] = ExpectedEntry(LastLine(RawLines, cid))

\* C18: a line whose Structure call, in the function_call or in the
\* tool_calls shape, has arguments that do not decode as JSON is processed
\* by storing the 'Error parsing result' sentinel (relevance Error) for its
\* custom_id and adding one to error_count.
C18_UndecodableArgumentsSentinel ==
    [][AtLine /\ BadArgsLine(CurrentLine) =>
          /\ Stored(ParserSentinel("Error parsing result"))
          /\ error_count' = error_count + 1]_vars

C18_Witness ==
    /\ line_no = 4
    /\ BadArgsLine(RawLines[4]) /\ CallInToolCalls(RawLines[4])
    /\ BadArgsLine(RawLines[2]) /\ CallInFunctionCall(RawLines[2])
    /\ partial_results["p4"] = ParserSentinel("Error parsing result")
    /\ partial_results["p2"] = ParserSentinel("Error parsing result")
    /\ error_count = 2

\* C19: a line whose message has no Structure call in either shape is
\* processed by storing the 'No AI result' sentinel (relevance Error) for
\* its custom_id.
C19_NoStructureCallSentinel ==
    [][AtLine /\ NoStructureCallLine(CurrentLine) =>
          Stored(ParserSentinel("No AI result"))]_vars

\* C20: a line with a malformed envelope is processed by storing the
\* 'Error accessing result' sentinel (relevance Error) for its custom_id,
\* and the parser goes on, at every position of the file.
C20_MalformedEnvelopeSentinel ==
    [][AtLine /\ MalformedLine(CurrentLine) =>
          /\ Stored(ParserSentinel("Error accessing result"))
          /\ pc' = "parse"]_vars

\* ------------------------------------------------------------------------
\* Cleanup, retry and the histogram
\* ------------------------------------------------------------------------
\* C24: whichever deletion fails during cleanup, the run returns success.
C24_CleanupFailureOnlyLogged ==
    [][pc = "cleanup" => pc' = "done" /\ ret' = "True"]_vars

EarlyPc == {"start", "poll", "download"}

RetryFiles == <<batchInfoFile, requestsFile, targetFile>>

\* C26: the handle file disappears only in a step that returns success; a
\* run returns False only from the stages before the parse, and up to that
\* return the handle file, the request artifact and the pre-existing output
\* file are left as they were.
C26_FailureKeepsHandle ==
    /\ [][batchInfoFile # <<>> /\ batchInfoFile' = <<>> => ret' = "True"]_vars
    /\ [][ret' = "False" => pc \in EarlyPc \/ ret = "False"]_vars
    /\ [][pc' \in EarlyPc => pc \in EarlyPc]_vars
    /\ [][(pc \in EarlyPc \/ ret' = "False") => (RetryFiles' = RetryFiles)]_vars

C26_Witness ==
    /\ pc = "done" /\ ret = "False" /\ status_info.status = "completed"
    /\ status_info.output_file_id = ""
    /\ batchInfoFile = <<Handle>> /\ requestsFile
    /\ targetFile = <<StaleTarget>>

\* the bucket the specification gives an enriched record
SpecBucket(e) ==
    IF RelOf(e) = "<absent>" THEN "Legacy"
    ELSE IF RelOf(e) \in {"Must", "High", "Medium", "Low", "Irrelevant"}
         THEN RelOf(e)
         ELSE "Error"

\* C28: every bucket counts the enriched records that the rule "Legacy
\* without relevance, Error outside the five symbols, else the relevance"
\* puts in it.
C28_BucketRule ==
    Filtered =>
        \A b \in BucketNames :
            relevance_counts[b] =
                Cardinality({i \in 1..Len(enhanced_data) :
                               SpecBucket(enhanced_data[i]) = b})

\* what a run that found the job failed, expired, cancelled or of unknown
\* status reports under the same flags
ErrorOutcome == <<"False", ExitCode(FALSE, no_fail)>>

\* C29: a run that ends because the job is not ready yet reports something
\* else than a run that ends on an error.
C29_NotReadyDistinctFromError ==
    (Exited /\ ret # "raised" /\ status_info.status \in NonTerminal) =>
        <<ret, exit_code>> # ErrorOutcome

InputIds == {dataFile[i].id : i \in 1..Len(dataFile)}

\* C30: every record of the output file is an input record with an AI
\* field added and nothing else changed; no output record carries the
\* custom_id of a parsed result that matches no input record.
C30_OutputRecordsAreInputRecords ==
    Saved =>
        /\ \A j \in 1..Len(Output) :
              \E i \in 1..Len(dataFile) :
                  /\ DOMAIN Output[j] = DOMAIN dataFile[i] \cup {"AI"}
                  /\ \A k \in DOMAIN dataFile[i] : Output[j][k] = dataFile[i][k]
        /\ \A j \in 1..Len(Output) :
              Output[j].id \notin (DOMAIN ai_results \ InputIds)

C30_Witness ==
    /\ Saved
    /\ DOMAIN ai_results \ InputIds # {}
    /\ Len(Output) = 2

RequestsNamed == batch_info[1].batch_requests_file # ""

RequestsBuilt == spc \in {"upload", "create", "save", "done"}

\* C21: create_batch_requests returns one request per record of its input,
\* in input order, with the record's id as custom_id, duplicates included.
C21_OneRequestPerRecord ==
    RequestsBuilt =>
        /\ Len(batch_requests) = Len(unique_data)
        /\ \A i \in 1..Len(unique_data) :
              batch_requests[i].custom_id = unique_data[i].id

C21_Witness ==
    /\ RequestsBuilt
    /\ Len(batch_requests) = 3
    /\ batch_requests[1].custom_id = batch_requests[3].custom_id
    /\ batch_requests[1] # batch_requests[3]

Deduplicated == spc # "main"

\* positions of the input file at which an id occurs for the first time
FirstOccurrences ==
    {i \in 1..Len(dataFile) :
        \A j \in 1..(i - 1) : dataFile[j].id # dataFile[i].id}

\* C22: the records handed to the submitter have pairwise distinct ids and
\* are the first occurrences of the ids of the input, in input order.
C22_FirstOccurrenceWins ==
    Deduplicated =>
        /\ \A i, j \in 1..Len(unique_data) :
              i # j => unique_data[i].id # unique_data[j].id
        /\ {unique_data[i] : i \in 1..Len(unique_data)} =
              {dataFile[i] : i \in FirstOccurrences}
        /\ \A i, j \in 1..Len(unique_data) :
              i < j => unique_data[i].title < unique_data[j].title

C22_Witness ==
    /\ Deduplicated
    /\ Len(dataFile) = 3 /\ Len(unique_data) = 2
    /\ dataFile[1].id = dataFile[3].id
    /\ unique_data = <<dataFile[1], dataFile[2]>>

\* C23: a failed upload raises with no job creation attempted; a Submit run
\* that raises leaves the handle file as it was; neither remote call is
\* made twice; the handle file is written only once a job was created.
C23_SubmitFailurePropagates ==
    /\ [](upload_calls <= 1 /\ create_calls <= 1)
    /\ [](batch_input_file = "" => create_calls = 0 /\ batch_job = "")
    /\ [](upload_calls = 1 /\ batch_input_file = "" => sret = "raised")
    /\ [](create_calls = 1 /\ batch_job = "" => sret = "raised")
    /\ [][sret' = "raised" => batchInfoFile' = batchInfoFile]_vars
    /\ [][batchInfoFile' # batchInfoFile =>
            batch_job # "" /\ sret' = batch_job]_vars

C23_Witness ==
    /\ spc = "done" /\ sret = "raised"
    /\ batch_input_file = "file_1" /\ batch_job = ""
    /\ batchInfoFile = <<Handle>>

\* ------------------------------------------------------------------------
\* Concurrent invocations
\* ------------------------------------------------------------------------
\* C27: nothing isolates the two runs: the Submit run writes its handle
\* over whatever handle file is there, the Process run keeps working on
\* the handle it read at its start, and the handle file disappears only in
\* the cleanup of a successful Process run, which removes it by path.  The
\* interleaving of the claim is C27_Witness.
C27_NoIsolation ==
    /\ [][(spc = "save" /\ spc' = "done") =>
            batchInfoFile' = <<NewHandle>>]_vars
    /\ [][batch_info # <<>> => batch_info' = batch_info]_vars
    /\ [][(batchInfoFile # <<>> /\ batchInfoFile' = <<>>) =>
            pc = "cleanup" /\ ret' = "True"]_vars

\* the Process run read the handle of the older job and succeeded, the
\* Submit run created the newer job and saved its handle, and no handle
\* file is left: the newer job is referenced nowhere
C27_Witness ==
    /\ pc = "done" /\ ret = "True" /\ batch_info = <<Handle>>
    /\ spc = "done" /\ sret = NewJob /\ batch_job = NewJob
    /\ batchInfoFile = <<>>

-----------------------------------------------------------------------------
\* C31: the filter is idempotent: applying the filter step again to the
\* records it retained drops nothing and leaves the retained sequence as it is.
C31_FilterIdempotent ==
    Filtered =>
        FilterLoop(filtered_data, Len(filtered_data)).filtered = filtered_data

\* the filter has dropped a record and retained another
C31_Witness ==
    /\ pc = "stats"
    /\ Len(filtered_data) > 0
    /\ Len(filtered_data) < Len(enhanced_data)

-----------------------------------------------------------------------------
\* C32: the statistics step never aborts the run: whatever the record file,
\* one with zero records included, a run that has reached the statistics
\* goes on to sort and save (and so returns success and writes the output).
C32_StatisticsNeverAbort ==
    [][pc = "stats" => (pc' = "sort" /\ ret' = "none")]_vars

-----------------------------------------------------------------------------
\* C37: every value of the mapping returned by parse_batch_results has a
\* relevance key, and hence, after the merge, a record is counted in the
\* Legacy bucket only if its id was absent from the parsed mapping.
C37_LegacyOnlyWhenAbsent ==
    Filtered =>
        /\ \A cid \in DOMAIN ai_results :
               "relevance" \in DOMAIN ai_results[cid]
        /\ \A i \in 1..Len(enhanced_data) :
               Bucket(enhanced_data[i]) = "Legacy" => Missing(i)

-----------------------------------------------------------------------------
\* the message carries a Structure invocation as its function_call or as the
\* first element of its tool_calls, whatever the other field holds
CarriesStructure(line) ==
    /\ line.envelope = "ok"
    /\ \/ CallInFunctionCall(line)
       \/ /\ Len(line.tool_calls) > 0
          /\ line.tool_calls[1].type = "function"
          /\ line.tool_calls[1].name = "Structure"

\* C33: for every line whose message carries a Structure invocation with
\* decodable arguments in either shape, the parser stores that invocation's
\* decoded arguments (relevance injected when absent) for the line's
\* custom_id, whatever the field of the other shape contains.
C33_EitherShapeDecoded ==
    [][(/\ AtLine
        /\ CarriesStructure(CurrentLine)
        /\ StructureArgs(CurrentLine).kind = "dict") =>
          Stored(InjectRelevance(
                   DecodedArgs(StructureArgs(CurrentLine).relevance)))]_vars

-----------------------------------------------------------------------------
\* ceil(a / b) for b > 0, and 0 when a <= 0
CeilDiv(a, b) == IF a <= 0 THEN 0 ELSE (a + b - 1) \div b

\* the run has left the polling loop
LoopLeft == pc \notin {"start", "poll"}

\* C35: with wait requested the polling loop terminates for every sequence
\* of remote statuses, after at most ceil(max_wait/60) sleep cycles and at
\* most ceil(max_wait/60)+1 polls; with max_wait <= 0 it never sleeps and
\* polls exactly once.
C35_PollingTerminates ==
    /\ [](wait_for_completion =>
            /\ sleeps <= CeilDiv(max_wait, SleepInterval)
            /\ polls <= CeilDiv(max_wait, SleepInterval) + 1)
    /\ []((wait_for_completion /\ max_wait <= 0 /\ LoopLeft
            /\ batch_info # <<>>) => (polls = 1 /\ sleeps = 0))
    /\ <>LoopLeft

\* the job stayed non-terminal: the loop gave up after ceil(120/60) sleeps
\* and ceil(120/60)+1 polls
C35_Witness ==
    /\ wait_for_completion
    /\ max_wait = 120
    /\ status_info.status \in NonTerminal
    /\ sleeps = 2
    /\ polls = 3
    /\ pc = "done"
    /\ ret = "False"

-----------------------------------------------------------------------------
\* C34: a Process run that starts after an earlier Process run has written
\* the output and the handle file is gone (no Submit has written a new one)
\* finds no handle: it returns the failure signal without a status query or
\* a download and leaves the output file and every other file as they are.
C34_SecondRunFindsNoHandle ==
    [][(pc = "start" /\ targetFile # <<>> /\ batchInfoFile = <<>>) =>
          /\ pc' = "done"
          /\ ret' = "False"
          /\ polls' = 0
          /\ downloads' = 0
          /\ files' = files]_vars

\* one job was submitted and merged; a second Process run has ended
C34_Witness ==
    /\ jobs = 1
    /\ spc = "done"
    /\ pc = "done"
    /\ ret = "False"
    /\ batch_info = <<>>
    /\ polls = 0
    /\ downloads = 0
    /\ batchInfoFile = <<>>
    /\ targetFile # <<>>

\* C36: between runs there is at most one handle file, and when it exists
\* it names the job most recently created by a Submit run (a run that
\* created a job writes its handle as its next step, over any older handle).
C36_HandleNamesLatestJob ==
    (Quiescent /\ batchInfoFile # <<>>) =>
        /\ jobs > 0
        /\ batchInfoFile = <<HandleOf(JobId(jobs))>>

\* a second Submit before any Process run has replaced the handle of the
\* first job
C36_Witness ==
    /\ pc = "idle"
    /\ spc = "done"
    /\ jobs = 2
    /\ sret = JobId(2)
    /\ batchInfoFile = <<HandleOf(JobId(2))>>

-----------------------------------------------------------------------------
\* ------------------------------------------------------------------------
\* The spider: one listing page per target category, parsed by one
\* generator each; the engine may resume the generators in any order
\* ------------------------------------------------------------------------
\* self.target_categories
TargetCategories == {"cs.CV", "cs.AI"}

\* what a <dt> of a listing page can be: kind says how far parse gets with it
\*   nolink      no item anchor, beyond the last anchor, or no abstract link
\*   nodd        no <dd> follows
\*   offtarget   subjects found, none of them a target category
\*   target      subjects found, one of them a target category
\*   nosubjects  no subjects text
PageEntries ==
    {[id |-> "a1", kind |-> "target"],
     [id |-> "a2", kind |-> "target"],
     [id |-> "a1", kind |-> "nosubjects"],
     [id |-> "a2", kind |-> "offtarget"],
     [id |-> "a1", kind |-> "nodd"],
     [id |-> "a2", kind |-> "nolink"]}

\* the body of parse from the k-th <dt> of the page up to its next yield or
\* its end: pos is the entry it yielded (Len(page) + 1: the generator is
\* exhausted), out the id of the yielded item
RECURSIVE RunFrom(_, _, _, _, _)
RunFrom(page, k, seen, total, dups) ==
    IF k > Len(page)
    THEN [pos |-> Len(page) + 1, seen |-> seen, total |-> total,
          dups |-> dups, out |-> <<>>]
    ELSE LET e == page[k]
         IN  IF e.kind = "nolink"
             THEN RunFrom(page, k + 1, seen, total, dups)
             ELSE IF e.id \in seen
             THEN RunFrom(page, k + 1, seen, total + 1, dups + 1)
             ELSE IF e.kind \in {"nodd", "offtarget"}
             THEN RunFrom(page, k + 1, seen, total + 1, dups)
             ELSE [pos |-> k, seen |-> seen \cup {e.id}, total |-> total + 1,
                   dups |-> dups, out |-> <<e.id>>]

\* the id is inserted into seen_papers after the yield, when the generator
\* is resumed, instead of before it
ResumeAddsAfterYield(c) ==
    /\ gen_pos[c] <= Len(pages[c])
    /\ LET seen0 == IF gen_pos[c] > 0
                    THEN seen_papers \cup {pages[c][gen_pos[c]].id}
                    ELSE seen_papers
           r == RunFrom(pages[c], gen_pos[c] + 1, seen0,
                        total_papers_seen, duplicates_skipped)
       IN  /\ gen_pos' = [gen_pos EXCEPT ![c] = r.pos]
           /\ seen_papers' = IF r.out = <<>> THEN r.seen
                             ELSE r.seen \ {r.out[1]}
           /\ yielded' = yielded \o r.out
           /\ total_papers_seen' = r.total
           /\ duplicates_skipped' = r.dups
    /\ UNCHANGED <<files, processVars, submitVars, jobs, pages>>

\* the engine asks the generator of page c for its next item: parse runs
\* from where it stands to its next yield (lines 85 and 106) or to its end
Resume(c) ==
    /\ gen_pos[c] <= Len(pages[c])
    /\ LET r == RunFrom(pages[c], gen_pos[c] + 1, seen_papers,
                        total_papers_seen, duplicates_skipped)
       IN  /\ gen_pos' = [gen_pos EXCEPT ![c] = r.pos]
           /\ seen_papers' = r.seen
           /\ yielded' = yielded \o r.out
           /\ total_papers_seen' = r.total
           /\ duplicates_skipped' = r.dups
    /\ UNCHANGED <<files, processVars, submitVars, jobs, pages>>

\* ArxivSpider.__init__ and the responses of the start urls
InitCrawl ==
    /\ pages \in [TargetCategories -> SeqsUpTo(PageEntries, MaxEntries)]
    /\ gen_pos = [c \in TargetCategories |-> 0]
    /\ seen_papers = {}
    /\ yielded = <<>>
    /\ total_papers_seen = 0
    /\ duplicates_skipped = 0
    /\ dataFile = <<>>
    /\ NothingRunYet

NextCrawl == \E c \in TargetCategories : Resume(c)

SpecCrawl == InitCrawl /\ [][NextCrawl]_vars

\* C38: within one crawl every arXiv id is yielded at most once, across
\* all listing pages and whatever the order in which their generators are
\* resumed, and the ids yielded are exactly the members of seen_papers.
C38_EachIdYieldedOnce ==
    /\ \A i, j \in 1..Len(yielded) : yielded[i] = yielded[j] => i = j
    /\ {yielded[i] : i \in 1..Len(yielded)} = seen_papers

\* the generator of one page stands at its first yield, with more of the
\* page to come, while the generator of the other page has skipped that id
\* as a duplicate and yielded another
C38_Witness ==
    /\ gen_pos["cs.CV"] = 1
    /\ Len(pages["cs.CV"]) = 2
    /\ gen_pos["cs.AI"] = 2
    /\ duplicates_skipped = 1
    /\ yielded = <<"a1", "a2">>

====
